---- MODULE Spec2Model ----
(***************************************************************************)
(* A model of pkg/utils/hash.go: the registry of hash types, the           *)
(* MultiHasher that feeds every write to one hash.Hash per requested type, *)
(* HashReader/HashFile over a seekable source, and HashInfo.               *)
(*                                                                         *)
(* A *HashType is an index into heap (pointer identity is index equality;  *)
(* two records of heap may be equal field by field and still be distinct   *)
(* pointers).  A Go string is a sequence of one-character strings, a       *)
(* []byte a sequence of numbers in 0..255.  A Go map is a function whose   *)
(* DOMAIN is the set of its keys; ranging over a map visits the keys in an *)
(* order the run chooses.                                                  *)
(***************************************************************************)
EXTENDS Integers, Sequences, FiniteSets, Bags, TLC

VARIABLES
    heap,        \* the HashType objects allocated so far, by address
    name2hash,   \* map[string]*HashType
    alias2hash,  \* map[string]*HashType
    Supported,   \* []*HashType
    regCalls,    \* history: the RegisterHash calls made, with what each returned
    m,           \* the MultiHasher under test: [built, types, w, size, h]
    hist,        \* history of the Write calls made on m: how many, the bytes they
                 \* offered, the sum of the counts they returned, whether none failed
    ret,         \* what the last call on m returned
    info,        \* the HashInfo the caller got from its last GetHashInfo
    infoFresh,   \* no Write on m since info was taken
    file,        \* the io.ReadSeeker given to HashFile: [data, pos]
    fret,        \* what the last call on file did and returned
    hi,          \* the HashInfo under test: map[*HashType]string
    hret         \* what the last call on hi returned

regVars  == <<heap, name2hash, alias2hash, Supported, regCalls>>
mVars    == <<m, hist, ret, info, infoFresh>>
fileVars == <<file, fret>>
hiVars   == <<hi, hret>>
vars     == <<heap, name2hash, alias2hash, Supported, regCalls,
              m, hist, ret, info, infoFresh, file, fret, hi, hret>>

(***************************************************************************)
(* Bounds of the model.                                                    *)
(***************************************************************************)
MaxRegs   == 3   \* RegisterHash calls after the package's own three
MaxTotal  == 2   \* bytes offered to one MultiHasher over its life
MaxWrites == 2   \* Write calls on one MultiHasher
MaxFile   == 3   \* length of the source given to HashFile

NULL == 0                     \* the nil *HashType
Bytes == {0, 104}             \* the byte values the inputs are drawn from

(***************************************************************************)
(* Go values.                                                              *)
(***************************************************************************)
Range(f) == {f[x] : x \in DOMAIN f}

EmptyMap == << >>

MapPut(f, k, v) == [x \in (DOMAIN f) \cup {k} |-> IF x = k THEN v ELSE f[x]]

\* f[k] on a Go map of pointers: the zero value for a key that is absent
MapGet(f, k, zero) == IF k \in DOMAIN f THEN f[k] ELSE zero

Take(s, n) == SubSeq(s, 1, n)

Drop(s, n) == SubSeq(s, n + 1, Len(s))

RECURSIVE SeqsUpTo(_, _)
SeqsUpTo(S, n) ==
    IF n = 0 THEN {<< >>}
    ELSE LET shorter == SeqsUpTo(S, n - 1)
         IN  shorter \cup {Append(s, x) : s \in {t \in shorter : Len(t) = n - 1}, x \in S}

\* the orders in which a range over a map with key set S may visit it
Orders(S) ==
    {o \in [1..Cardinality(S) -> S] : \A i, j \in 1..Cardinality(S) : o[i] = o[j] => i = j}

(***************************************************************************)
(* The strings of the program.                                             *)
(***************************************************************************)
S_md5     == <<"m", "d", "5">>
S_MD5     == <<"M", "D", "5">>
S_sha1    == <<"s", "h", "a", "1">>
S_SHA1    == <<"S", "H", "A", "-", "1">>
S_sha256  == <<"s", "h", "a", "2", "5", "6">>
S_SHA256  == <<"S", "H", "A", "-", "2", "5", "6">>
S_dup     == <<"d", "u", "p">>
S_DUP     == <<"D", "U", "P">>

(***************************************************************************)
(* The registry: name2hash, alias2hash, Supported and RegisterHash.        *)
(***************************************************************************)
HashType(name, alias, width, newFunc) ==
    [Width |-> width, Name |-> name, Alias |-> alias, NewFunc |-> newFunc]

\* the package-level variables before any initializer has run
EmptyRegistry ==
    [heap |-> << >>, name2hash |-> EmptyMap, alias2hash |-> EmptyMap, Supported |-> << >>]

\* a faulty variant: a name already registered keeps its first descriptor
RegisterHashKeepFirst(reg, name, alias, width, newFunc) ==
    LET newType == Len(reg.heap) + 1
    IN  [heap       |-> Append(reg.heap, HashType(name, alias, width, newFunc)),
         name2hash  |-> IF name \in DOMAIN reg.name2hash THEN reg.name2hash
                        ELSE MapPut(reg.name2hash, name, newType),
         alias2hash |-> IF alias \in DOMAIN reg.alias2hash THEN reg.alias2hash
                        ELSE MapPut(reg.alias2hash, alias, newType),
         Supported  |-> Append(reg.Supported, newType)]

\* a faulty variant: the alias is not indexed
RegisterHashNoAlias(reg, name, alias, width, newFunc) ==
    LET newType == Len(reg.heap) + 1
    IN  [heap       |-> Append(reg.heap, HashType(name, alias, width, newFunc)),
         name2hash  |-> MapPut(reg.name2hash, name, newType),
         alias2hash |-> reg.alias2hash,
         Supported  |-> Append(reg.Supported, newType)]

\* RegisterHash on the registry reg: the registry after the call.  The
\* pointer it returns is the address of the record it allocates.
RegisterHashOp(reg, name, alias, width, newFunc) ==
    LET newType == Len(reg.heap) + 1
    IN  [heap       |-> Append(reg.heap, HashType(name, alias, width, newFunc)),
         name2hash  |-> MapPut(reg.name2hash, name, newType),
         alias2hash |-> MapPut(reg.alias2hash, alias, newType),
         Supported  |-> Append(reg.Supported, newType)]

Registry ==
    [heap |-> heap, name2hash |-> name2hash, alias2hash |-> alias2hash,
     Supported |-> Supported]

\* one call of RegisterHash, as a step of the program
RegisterHash(name, alias, width, newFunc) ==
    LET after == RegisterHashOp(Registry, name, alias, width, newFunc)
    IN  /\ heap' = after.heap
        /\ name2hash' = after.name2hash
        /\ alias2hash' = after.alias2hash
        /\ Supported' = after.Supported
        /\ regCalls' = Append(regCalls,
                              [name |-> name, alias |-> alias, ret |-> Len(after.heap)])

\* the package's initializers, in source order: MD5, SHA1, SHA256
Builtin ==
    << [name |-> S_md5,    alias |-> S_MD5,    width |-> 32, newFunc |-> "md5"],
       [name |-> S_sha1,   alias |-> S_SHA1,   width |-> 40, newFunc |-> "sha1"],
       [name |-> S_sha256, alias |-> S_SHA256, width |-> 64, newFunc |-> "sha256"] >>

MD5    == 1
SHA1   == 2
SHA256 == 3

\* the next package-level initializer runs
PackageInit ==
    /\ Len(regCalls) < Len(Builtin)
    /\ LET b == Builtin[Len(regCalls) + 1]
       IN  RegisterHash(b.name, b.alias, b.width, b.newFunc)
    /\ UNCHANGED <<mVars, fileVars, hiVars>>

\* what a program registers after that
RegNames   == {S_md5, S_dup}
RegAliases == {S_MD5, S_DUP}
RegFuncs   == {"md5", "custom"}

RegisterHashCall ==
    /\ Len(regCalls) >= Len(Builtin)
    /\ Len(regCalls) < Len(Builtin) + MaxRegs
    /\ \E name \in RegNames, alias \in RegAliases, newFunc \in RegFuncs :
           RegisterHash(name, alias, 32, newFunc)
    /\ UNCHANGED <<mVars, fileVars, hiVars>>

(***************************************************************************)
(* hash.Hash, as the package uses it: NewFunc, Write and Sum, and          *)
(* hex.EncodeToString.  crypto/md5, crypto/sha1 and crypto/sha256 are not  *)
(* part of the package; each is a function of the bytes written so far,    *)
(* here a small multiplicative digest with its own seed, multiplier and    *)
(* length.  "custom" is a hash.Hash a caller registered: as an io.Writer   *)
(* its Write may accept fewer bytes than offered and may return an error.  *)
(***************************************************************************)
DigestLen(kind) ==
    CASE kind = "md5" -> 2 [] kind = "sha1" -> 3 [] kind = "sha256" -> 3 [] OTHER -> 1

Seed(kind) ==
    CASE kind = "md5" -> 103 [] kind = "sha1" -> 239 [] kind = "sha256" -> 106 [] OTHER -> 17

Mult(kind) ==
    CASE kind = "md5" -> 31 [] kind = "sha1" -> 37 [] kind = "sha256" -> 41 [] OTHER -> 7

RECURSIVE Pow256(_)
Pow256(n) == IF n = 0 THEN 1 ELSE 256 * Pow256(n - 1)

RECURSIVE Mix(_, _, _)
Mix(kind, h, data) ==
    IF data = << >> THEN h
    ELSE Mix(kind, (h * Mult(kind) + Head(data) + 1) % Pow256(DigestLen(kind)), Tail(data))

\* t.NewFunc(): a fresh digest computer
NewFunc(kind) == [kind |-> kind, acc |-> << >>]

\* h.Write(p) accepting n bytes: they are added to the running hash
HashWrite(c, p, n) == [c EXCEPT !.acc = @ \o Take(p, n)]

\* h.Sum(nil): the digest of the bytes written so far, big-endian; h is unchanged
HashSum(c) ==
    LET h == Mix(c.kind, Seed(c.kind), c.acc)
        len == DigestLen(c.kind)
    IN  [i \in 1..len |-> (h \div Pow256(len - i)) % 256]

HexDigits ==
    <<"0", "1", "2", "3", "4", "5", "6", "7", "8", "9", "a", "b", "c", "d", "e", "f">>

\* hex.EncodeToString: two lower-case digits per byte, high nibble first
EncodeToString(b) ==
    [i \in 1..(2 * Len(b)) |->
        IF i % 2 = 1 THEN HexDigits[(b[(i + 1) \div 2] \div 16) + 1]
        ELSE HexDigits[(b[i \div 2] % 16) + 1]]

(***************************************************************************)
(* Errors.                                                                 *)
(***************************************************************************)
Nil            == [kind |-> "nil", who |-> NULL]
ErrUnsupported == [kind |-> "hash type not supported", who |-> NULL]
ErrShortWrite  == [kind |-> "short write", who |-> NULL]
WriteErr(t)    == [kind |-> "write error", who |-> t]      \* the error of t's computer
ReadErr        == [kind |-> "read error", who |-> NULL]
SeekErr        == [kind |-> "seek error", who |-> NULL]
\* errs.NewErr(err, "HashReader error"): err, annotated
NewErr(err)    == [kind |-> "HashReader error", who |-> err]

\* HashData: the write's results are dropped
HashData(hashType, data) ==
    LET h == HashWrite(NewFunc(heap[hashType].NewFunc), data, Len(data))
    IN  EncodeToString(HashSum(h))

(***************************************************************************)
(* MultiHasher.                                                            *)
(***************************************************************************)
\* fromTypes: one fresh computer per requested type
fromTypes(types) == [t \in Range(types) |-> NewFunc(heap[t].NewFunc)]

\* toMultiWriter: the computers in the order the range over the map visits
\* them; io.MultiWriter keeps that slice
toMultiWriter(h) == Orders(DOMAIN h)

NoFault == [at |-> 0, n |-> 0, err |-> FALSE]

\* what the computers of h may do with one Write of p: all accept it, or
\* the custom computer at one place of ws accepts n bytes and returns an
\* error (err) or none
Faults(ws, h, p) ==
    {NoFault} \cup
    {f \in [at : {k \in 1..Len(ws) : h[ws[k]].kind = "custom"},
            n : 0..Len(p), err : BOOLEAN] : f.err \/ f.n < Len(p)}

\* a faulty variant: the remaining writers are still fed after one has failed
RECURSIVE MultiWriteAll(_, _, _, _, _)
MultiWriteAll(ws, h, p, fault, i) ==
    IF i > Len(ws) THEN [h |-> h, n |-> Len(p), err |-> Nil]
    ELSE LET t  == ws[i]
             n  == IF fault.at = i THEN fault.n ELSE Len(p)
             h2 == [h EXCEPT ![t] = HashWrite(@, p, n)]
             rest == MultiWriteAll(ws, h2, p, fault, i + 1)
         IN  IF fault.at = i /\ fault.err THEN [rest EXCEPT !.n = n, !.err = WriteErr(t)]
             ELSE IF n # Len(p) THEN [rest EXCEPT !.n = n, !.err = ErrShortWrite]
             ELSE rest

\* a faulty variant: the last writer is never fed
RECURSIVE MultiWriteSkipLast(_, _, _, _, _)
MultiWriteSkipLast(ws, h, p, fault, i) ==
    IF i > Len(ws) \/ (i = Len(ws) /\ i > 1) THEN [h |-> h, n |-> Len(p), err |-> Nil]
    ELSE LET t  == ws[i]
             n  == IF fault.at = i THEN fault.n ELSE Len(p)
             h2 == [h EXCEPT ![t] = HashWrite(@, p, n)]
         IN  IF fault.at = i /\ fault.err THEN [h |-> h2, n |-> n, err |-> WriteErr(t)]
             ELSE IF n # Len(p) THEN [h |-> h2, n |-> n, err |-> ErrShortWrite]
             ELSE MultiWriteSkipLast(ws, h2, p, fault, i + 1)

\* io.MultiWriter's Write, from writer i on: each writer in turn is given
\* all of p; the first error, or the first short write, ends the call
RECURSIVE MultiWrite(_, _, _, _, _)
MultiWrite(ws, h, p, fault, i) ==
    IF i > Len(ws) THEN [h |-> h, n |-> Len(p), err |-> Nil]
    ELSE LET t  == ws[i]
             n  == IF fault.at = i THEN fault.n ELSE Len(p)
             h2 == [h EXCEPT ![t] = HashWrite(@, p, n)]
         IN  IF fault.at = i /\ fault.err THEN [h |-> h2, n |-> n, err |-> WriteErr(t)]
             ELSE IF n # Len(p) THEN [h |-> h2, n |-> n, err |-> ErrShortWrite]
             ELSE MultiWrite(ws, h2, p, fault, i + 1)

\* types is history: the list NewMultiHasher was given
NoHasher == [built |-> FALSE, types |-> << >>, w |-> << >>, size |-> 0, h |-> EmptyMap]

NoRet ==
    [op |-> "none", p |-> << >>, n |-> 0, err |-> Nil, x |-> NULL, sum |-> << >>,
     size |-> 0, fault |-> NoFault]

NoHist == [writes |-> 0, fed |-> << >>, sumN |-> 0, ok |-> TRUE]

\* the history after one more Write(p) that returned (n, err)
Logged(h, p, n, err) ==
    [writes |-> h.writes + 1, fed |-> h.fed \o p, sumN |-> h.sumN + n,
     ok |-> h.ok /\ err = Nil]

NoInfo == [taken |-> FALSE, h |-> EmptyMap]

\* the pointer a fourth RegisterHash call returns
CUSTOM == Len(Builtin) + 1

\* the requests made of NewMultiHasher: no type, any one, two or three of MD5,
\* SHA1 and the caller's own type (in registration order: fromTypes builds a
\* map, which forgets the order of the list), the three types of the package,
\* and one type given twice
TypeLists ==
    {t \in SeqsUpTo({MD5, SHA1, CUSTOM}, 3) : \A i, j \in 1..Len(t) : i < j => t[i] < t[j]}
    \cup {<<MD5, SHA1, SHA256>>, <<SHA256>>, <<MD5, MD5>>}

NewMultiHasher ==
    /\ ~m.built
    /\ \E types \in TypeLists :
          LET hashers == fromTypes(types)
          IN  \E w \in toMultiWriter(hashers) :
                  m' = [built |-> TRUE, types |-> types, w |-> w, size |-> 0, h |-> hashers]
    /\ ret' = [NoRet EXCEPT !.op = "NewMultiHasher"]
    /\ UNCHANGED <<hist, info, infoFresh, regVars, fileVars, hiVars>>

\* a faulty variant: the counter moves only when the write succeeded
WriteCountOnSuccess(p, fault) ==
    LET r == MultiWrite(m.w, m.h, p, fault, 1)
    IN  /\ m' = [m EXCEPT !.h = r.h, !.size = IF r.err = Nil THEN @ + r.n ELSE @]
        /\ ret' = [NoRet EXCEPT !.op = "Write", !.p = p, !.n = r.n, !.err = r.err,
                                !.fault = fault]
        /\ hist' = Logged(hist, p, r.n, r.err)
        /\ infoFresh' = FALSE
        /\ UNCHANGED info

\* MultiHasher.Write(p), the computers behaving as fault says
Write(p, fault) ==
    LET r == MultiWrite(m.w, m.h, p, fault, 1)
    IN  /\ m' = [m EXCEPT !.h = r.h, !.size = @ + r.n]
        /\ ret' = [NoRet EXCEPT !.op = "Write", !.p = p, !.n = r.n, !.err = r.err,
                                !.fault = fault]
        /\ hist' = Logged(hist, p, r.n, r.err)
        /\ infoFresh' = FALSE
        /\ UNCHANGED info

WriteCall ==
    /\ m.built
    /\ hist.writes < MaxWrites
    /\ \E p \in SeqsUpTo(Bytes, MaxTotal - Len(hist.fed)) :
          \E fault \in Faults(m.w, m.h, p) : Write(p, fault)
    /\ UNCHANGED <<regVars, fileVars, hiVars>>

\* a faulty variant: the type is found by its Name
SumByName(hashType) ==
    LET same == {t \in DOMAIN m.h : hashType # NULL /\ heap[t].Name = heap[hashType].Name}
    IN  /\ ret' = IF same = {}
                  THEN [NoRet EXCEPT !.op = "Sum", !.x = hashType, !.err = ErrUnsupported]
                  ELSE [NoRet EXCEPT !.op = "Sum", !.x = hashType,
                                     !.sum = HashSum(m.h[CHOOSE t \in same : TRUE])]
        /\ UNCHANGED <<m, hist, info, infoFresh>>

\* MultiHasher.Sum(hashType)
Sum(hashType) ==
    /\ ret' = IF hashType \notin DOMAIN m.h
              THEN [NoRet EXCEPT !.op = "Sum", !.x = hashType, !.err = ErrUnsupported]
              ELSE [NoRet EXCEPT !.op = "Sum", !.x = hashType, !.sum = HashSum(m.h[hashType])]
    /\ UNCHANGED <<m, hist, info, infoFresh>>

SumCall ==
    /\ m.built
    /\ \E hashType \in (DOMAIN heap) \cup {NULL} : Sum(hashType)
    /\ UNCHANGED <<regVars, fileVars, hiVars>>

\* MultiHasher.Size()
Size ==
    /\ ret' = [NoRet EXCEPT !.op = "Size", !.size = m.size]
    /\ UNCHANGED <<m, hist, info, infoFresh>>

SizeCall ==
    /\ m.built
    /\ Size
    /\ UNCHANGED <<regVars, fileVars, hiVars>>

\* a faulty variant: a computer that has been written to is left out of the result
GetHashInfoNonEmpty ==
    /\ info' = [taken |-> TRUE,
                h |-> [k \in {t \in DOMAIN m.h : m.h[t].acc = << >>} |->
                          EncodeToString(HashSum(m.h[k]))]]
    /\ infoFresh' = TRUE
    /\ ret' = [NoRet EXCEPT !.op = "GetHashInfo"]
    /\ UNCHANGED <<m, hist>>

\* a faulty variant: taking the digests resets the computers
GetHashInfoReset ==
    /\ info' = [taken |-> TRUE, h |-> [k \in DOMAIN m.h |-> EncodeToString(HashSum(m.h[k]))]]
    /\ infoFresh' = TRUE
    /\ ret' = [NoRet EXCEPT !.op = "GetHashInfo"]
    /\ m' = [m EXCEPT !.h = [k \in DOMAIN m.h |-> NewFunc(m.h[k].kind)]]
    /\ UNCHANGED hist

\* MultiHasher.GetHashInfo(): a new map, one hex digest per computer
GetHashInfo ==
    /\ info' = [taken |-> TRUE, h |-> [k \in DOMAIN m.h |-> EncodeToString(HashSum(m.h[k]))]]
    /\ infoFresh' = TRUE
    /\ ret' = [NoRet EXCEPT !.op = "GetHashInfo"]
    /\ UNCHANGED <<m, hist>>

GetHashInfoCall ==
    /\ m.built
    /\ GetHashInfo
    /\ UNCHANGED <<regVars, fileVars, hiVars>>

(***************************************************************************)
(* HashReader and HashFile over a seekable source.  The source is          *)
(* [data, pos]; its Read hands out at most ChunkSize bytes at a time (the  *)
(* buffer of io.Copy), then io.EOF.  A run chooses where the source fails, *)
(* where a custom computer fails, and whether Seek fails.                  *)
(***************************************************************************)
ChunkSize == 2

\* the source fails once it has handed out readFail bytes (-1: never); the
\* computer fails once it has accepted writeFail bytes (-1: never), with an
\* error (writeErr) or with a short count only; Seek fails (seekFail)
NoTrouble == [readFail |-> -1, writeFail |-> -1, writeErr |-> FALSE, seekFail |-> FALSE]

Troubles(hashType, f) ==
    LET left == Len(f.data) - f.pos
    IN  {t \in [readFail  : (-1)..left,
                writeFail : IF heap[hashType].NewFunc = "custom" /\ left > 0
                            THEN (-1)..(left - 1) ELSE {-1},
                writeErr  : BOOLEAN,
                seekFail  : BOOLEAN] : t.writeErr => t.writeFail >= 0}

Min(a, b) == IF a < b THEN a ELSE b

\* io.Copy(h, reader) from the state (h, f) on, done bytes read so far: the
\* computer, the source and the error when the copy ends
RECURSIVE Copy(_, _, _, _)
Copy(h, f, t, done) ==
    IF t.readFail = done THEN [h |-> h, f |-> f, err |-> ReadErr]
    ELSE LET left == Len(f.data) - f.pos
             room == IF t.readFail < 0 THEN left ELSE Min(left, t.readFail - done)
             nr   == Min(ChunkSize, room)
             buf  == SubSeq(f.data, f.pos + 1, f.pos + nr)
             f2   == [f EXCEPT !.pos = @ + nr]
             took == Len(h.acc)
             nw   == IF t.writeFail >= 0 /\ t.writeFail < took + nr
                     THEN t.writeFail - took ELSE nr
             h2   == HashWrite(h, buf, nw)
         IN  IF nr = 0 THEN [h |-> h, f |-> f, err |-> Nil]            \* io.EOF
             ELSE IF nw < nr /\ t.writeErr THEN [h |-> h2, f |-> f2, err |-> WriteErr(NULL)]
             ELSE IF nw < nr THEN [h |-> h2, f |-> f2, err |-> ErrShortWrite]
             ELSE Copy(h2, f2, t, done + nr)

\* HashReader: the hex digest of what the reader yields, or "" and the
\* annotated error of the copy
HashReader(hashType, f, t) ==
    LET c == Copy(NewFunc(heap[hashType].NewFunc), f, t, 0)
    IN  IF c.err # Nil THEN [str |-> << >>, err |-> NewErr(c.err), f |-> c.f]
        ELSE [str |-> EncodeToString(HashSum(c.h)), err |-> Nil, f |-> c.f]

\* a faulty variant: the digest is dropped when the rewind fails
HashFileDropsDigest(hashType, f, t) ==
    LET r == HashReader(hashType, f, t)
    IN  IF r.err # Nil THEN [str |-> << >>, err |-> r.err, f |-> r.f, seeks |-> 0]
        ELSE IF t.seekFail THEN [str |-> << >>, err |-> SeekErr, f |-> r.f, seeks |-> 1]
        ELSE [str |-> r.str, err |-> Nil, f |-> [r.f EXCEPT !.pos = 0], seeks |-> 1]

\* HashFile: HashReader, then Seek(0, io.SeekStart); seeks counts the Seek
\* calls made.  A Seek that fails leaves the position where it was (as that of
\* an os.File or a bytes.Reader does).
HashFile(hashType, f, t) ==
    LET r == HashReader(hashType, f, t)
    IN  IF r.err # Nil THEN [str |-> << >>, err |-> r.err, f |-> r.f, seeks |-> 0]
        ELSE IF t.seekFail THEN [str |-> r.str, err |-> SeekErr, f |-> r.f, seeks |-> 1]
        ELSE [str |-> r.str, err |-> Nil, f |-> [r.f EXCEPT !.pos = 0], seeks |-> 1]

NoFret ==
    [op |-> "none", x |-> NULL, from |-> 0, trouble |-> NoTrouble,
     str |-> << >>, err |-> Nil, seeks |-> 0, read |-> << >>]

HashFileCall ==
    /\ \E hashType \in DOMAIN heap :
         \E t \in Troubles(hashType, file) :
            LET r == HashFile(hashType, file, t)
            IN  /\ file' = r.f
                /\ fret' = [NoFret EXCEPT !.op = "HashFile", !.x = hashType,
                                          !.from = file.pos, !.trouble = t,
                                          !.str = r.str, !.err = r.err, !.seeks = r.seeks]
    /\ UNCHANGED <<regVars, mVars, hiVars>>

\* another consumer of the source reads its next n bytes
FileRead ==
    /\ file.pos < Len(file.data)
    /\ \E n \in 1..(Len(file.data) - file.pos) :
          /\ file' = [file EXCEPT !.pos = @ + n]
          /\ fret' = [NoFret EXCEPT !.op = "Read", !.from = file.pos,
                                    !.read = SubSeq(file.data, file.pos + 1, file.pos + n)]
    /\ UNCHANGED <<regVars, mVars, hiVars>>

(***************************************************************************)
(* HashInfo.                                                               *)
(***************************************************************************)
LF == "\n"

\* strings.Join(a, sep)
RECURSIVE Join(_, _)
Join(a, sep) ==
    IF a = << >> THEN << >>
    ELSE IF Len(a) = 1 THEN a[1]
    ELSE a[1] \o sep \o Join(Tail(a), sep)

\* a faulty variant: every entry gets a line
RECURSIVE StringLinesAll(_, _)
StringLinesAll(h, order) ==
    IF order = << >> THEN << >>
    ELSE <<heap[Head(order)].Name \o <<":">> \o h[Head(order)]>>
         \o StringLinesAll(h, Tail(order))

\* the loop of HashInfo.String over the map h, visited in the given order:
\* what tmp holds at the end
RECURSIVE StringLines(_, _)
StringLines(h, order) ==
    IF order = << >> THEN << >>
    ELSE LET ht  == Head(order)
             str == h[ht]
         IN  (IF Len(str) > 0 THEN <<heap[ht].Name \o <<":">> \o str>> ELSE << >>)
             \o StringLines(h, Tail(order))

\* NewHashInfo(ht, str)
NewHashInfo(ht, str) == [k \in {ht} |-> str]

\* HashInfo.GetHash(ht): hi.h[ht], the empty string when ht is no key
GetHash(h, ht) == MapGet(h, ht, << >>)

NoHret == [op |-> "none", x |-> NULL, str |-> << >>]

\* the digest strings a HashInfo is given
InfoStrs == {<< >>, <<"a", "b", "c", "1", "2", "3">>, EncodeToString(HashSum(NewFunc("md5")))}

StringCall ==
    /\ \E order \in Orders(DOMAIN hi) :
          hret' = [NoHret EXCEPT !.op = "String", !.str = Join(StringLines(hi, order), <<LF>>)]
    /\ UNCHANGED <<hi, regVars, mVars, fileVars>>

GetHashCall ==
    /\ \E ht \in (DOMAIN heap) \cup {NULL} :
          hret' = [NoHret EXCEPT !.op = "GetHash", !.x = ht, !.str = GetHash(hi, ht)]
    /\ UNCHANGED <<hi, regVars, mVars, fileVars>>

NewHashInfoCall ==
    /\ \E ht \in DOMAIN heap, str \in InfoStrs : hi' = NewHashInfo(ht, str)
    /\ hret' = [NoHret EXCEPT !.op = "NewHashInfo"]
    /\ UNCHANGED <<regVars, mVars, fileVars>>

(***************************************************************************)
(* Initial states and specifications.                                      *)
(***************************************************************************)
NoFile == [data |-> << >>, pos |-> 0]
RegistryIs(reg) ==
    /\ heap = reg.heap
    /\ name2hash = reg.name2hash
    /\ alias2hash = reg.alias2hash
    /\ Supported = reg.Supported

OthersIdle ==
    /\ m = NoHasher /\ hist = NoHist /\ ret = NoRet /\ info = NoInfo /\ infoFresh = FALSE
    /\ file = NoFile /\ fret = NoFret
    /\ hi = EmptyMap /\ hret = NoHret

\* the program before its package-level initializers
Init ==
    /\ RegistryIs(EmptyRegistry)
    /\ regCalls = << >>
    /\ OthersIdle

Next == PackageInit \/ RegisterHashCall

\* the registry: the initializers, then a program's own registrations
Spec == Init /\ [][Next]_vars

RECURSIVE RegisterAll(_, _)
RegisterAll(reg, bs) ==
    IF bs = << >> THEN reg
    ELSE RegisterAll(RegisterHashOp(reg, Head(bs).name, Head(bs).alias, Head(bs).width,
                                    Head(bs).newFunc), Tail(bs))

\* the registry once the package is initialized and a caller has registered
\* its own hash under the name and alias of MD5
Registered ==
    Append(Builtin, [name |-> S_md5, alias |-> S_MD5, width |-> 32, newFunc |-> "custom"])

InitHasher ==
    /\ RegistryIs(RegisterAll(EmptyRegistry, Registered))
    /\ regCalls = [i \in 1..Len(Registered) |->
                      [name |-> Registered[i].name, alias |-> Registered[i].alias, ret |-> i]]
    /\ OthersIdle

NextHasher == NewMultiHasher \/ WriteCall \/ SumCall \/ SizeCall \/ GetHashInfoCall

\* one MultiHasher: built, written to and read
SpecHasher == InitHasher /\ [][NextHasher]_vars

\* a source of up to MaxFile bytes, just opened
InitFile ==
    /\ RegistryIs(RegisterAll(EmptyRegistry, Registered))
    /\ regCalls = [i \in 1..Len(Registered) |->
                      [name |-> Registered[i].name, alias |-> Registered[i].alias, ret |-> i]]
    /\ m = NoHasher /\ hist = NoHist /\ ret = NoRet /\ info = NoInfo /\ infoFresh = FALSE
    /\ file \in [data : SeqsUpTo(Bytes, MaxFile), pos : {0}]
    /\ fret = NoFret
    /\ hi = EmptyMap /\ hret = NoHret

NextFile == HashFileCall \/ FileRead

\* one source: hashed, and read by others
SpecFile == InitFile /\ [][NextFile]_vars

\* any HashInfo over the registered types
InitInfo ==
    /\ RegistryIs(RegisterAll(EmptyRegistry, Registered))
    /\ regCalls = [i \in 1..Len(Registered) |->
                      [name |-> Registered[i].name, alias |-> Registered[i].alias, ret |-> i]]
    /\ m = NoHasher /\ hist = NoHist /\ ret = NoRet /\ info = NoInfo /\ infoFresh = FALSE
    /\ file = NoFile /\ fret = NoFret
    /\ \E S \in SUBSET (1..Len(Registered)) : hi \in [S -> InfoStrs]
    /\ hret = NoHret

NextInfo == StringCall \/ GetHashCall \/ NewHashInfoCall

\* one HashInfo: rendered and queried
SpecInfo == InitInfo /\ [][NextInfo]_vars

(***************************************************************************)
(* Properties of the registry (Spec).                                      *)
(***************************************************************************)
\* the places of Supported after place i whose descriptor has d's Name (Alias)
LaterWithName(i) ==
    {j \in (i + 1)..Len(Supported) : heap[Supported[j]].Name = heap[Supported[i]].Name}

LaterWithAlias(i) ==
    {j \in (i + 1)..Len(Supported) : heap[Supported[j]].Alias = heap[Supported[i]].Alias}

\* C5, as stated: every descriptor of Supported is the one its Name maps to
\* in name2hash and the one its Alias maps to in alias2hash.
C5_AllReachable ==
    \A i \in 1..Len(Supported) :
        LET d == Supported[i]
        IN  /\ MapGet(name2hash, heap[d].Name, NULL) = d
            /\ MapGet(alias2hash, heap[d].Alias, NULL) = d

\* C5, amended: the Name of every descriptor of Supported is a key of
\* name2hash, and maps to that descriptor exactly when no later entry of
\* Supported has the same Name; otherwise it maps to the last entry that has
\* it.  Likewise for Alias and alias2hash.
C5_LatestReachable ==
    \A i \in 1..Len(Supported) :
        LET d == Supported[i]
        IN  /\ heap[d].Name \in DOMAIN name2hash
            /\ heap[d].Alias \in DOMAIN alias2hash
            /\ (name2hash[heap[d].Name] = d) <=> (LaterWithName(i) = {})
            /\ (alias2hash[heap[d].Alias] = d) <=> (LaterWithAlias(i) = {})
            /\ \E j \in i..Len(Supported) :
                   /\ name2hash[heap[d].Name] = Supported[j]
                   /\ heap[Supported[j]].Name = heap[d].Name
                   /\ LaterWithName(j) = {}
            /\ \E j \in i..Len(Supported) :
                   /\ alias2hash[heap[d].Alias] = Supported[j]
                   /\ heap[Supported[j]].Alias = heap[d].Alias
                   /\ LaterWithAlias(j) = {}

C5_Witness ==
    /\ Len(Supported) = 5
    /\ MapGet(name2hash, S_md5, NULL) = 5 /\ MapGet(alias2hash, S_MD5, NULL) = 1
    /\ MapGet(name2hash, S_dup, NULL) = 4 /\ MapGet(alias2hash, S_DUP, NULL) = 5

\* the last call of RegisterHash made with a given name (alias)
LastCallNamed(name) ==
    CHOOSE i \in 1..Len(regCalls) :
        /\ regCalls[i].name = name
        /\ \A j \in (i + 1)..Len(regCalls) : regCalls[j].name # name

LastCallAliased(alias) ==
    CHOOSE i \in 1..Len(regCalls) :
        /\ regCalls[i].alias = alias
        /\ \A j \in (i + 1)..Len(regCalls) : regCalls[j].alias # alias

\* the maps and the list, against the calls made
C6_State ==
    /\ Len(Supported) = Len(regCalls)
    /\ \A i \in 1..Len(regCalls) :
          /\ Supported[i] = regCalls[i].ret
          /\ heap[regCalls[i].ret].Name = regCalls[i].name
          /\ heap[regCalls[i].ret].Alias = regCalls[i].alias
          /\ \A j \in 1..Len(regCalls) : regCalls[i].ret = regCalls[j].ret => i = j
    /\ DOMAIN name2hash = {regCalls[i].name : i \in 1..Len(regCalls)}
    /\ DOMAIN alias2hash = {regCalls[i].alias : i \in 1..Len(regCalls)}
    /\ \A n \in DOMAIN name2hash : name2hash[n] = regCalls[LastCallNamed(n)].ret
    /\ \A a \in DOMAIN alias2hash : alias2hash[a] = regCalls[LastCallAliased(a)].ret

\* C6: name2hash maps a name to what the last RegisterHash call with that
\* name returned (likewise alias2hash), and Supported holds what each call
\* returned, in call order: a call adds one entry at the end and leaves the
\* earlier ones in place.
C6_LatestWins ==
    /\ []C6_State
    /\ [][/\ Len(Supported') = Len(Supported) + 1
          /\ SubSeq(Supported', 1, Len(Supported)) = Supported]_vars

C6_Witness ==
    /\ Len(regCalls) = 5
    /\ regCalls[4].name = S_dup /\ regCalls[5].name = S_dup
    /\ regCalls[4].alias = S_DUP /\ regCalls[5].alias = S_MD5
    /\ name2hash[S_dup] = 5 /\ alias2hash[S_DUP] = 4 /\ alias2hash[S_MD5] = 5
    /\ Supported = <<1, 2, 3, 4, 5>>

(***************************************************************************)
(* Properties of HashFile (SpecFile).                                      *)
(***************************************************************************)
\* the copy of HashReader ends with an error
DrainFails(t) == t.readFail >= 0 \/ t.writeFail >= 0

\* what HashFile returned and did, against what Read, Write and Seek did
C7_State ==
    fret.op = "HashFile" =>
        LET t    == fret.trouble
            rest == Drop(file.data, fret.from)
        IN  /\ (~DrainFails(t) /\ ~t.seekFail) =>
                   /\ fret.err = Nil /\ fret.str = HashData(fret.x, rest)
                   /\ file.pos = 0 /\ fret.seeks = 1
            /\ DrainFails(t) =>
                   /\ fret.err # Nil /\ fret.str = << >> /\ fret.seeks = 0
            /\ (~DrainFails(t) /\ t.seekFail) =>
                   /\ fret.err = SeekErr /\ fret.str = HashData(fret.x, rest)
                   /\ fret.str # << >> /\ fret.seeks = 1

\* C7: HashFile ends in one of three ways.  Copy and Seek succeed: the digest
\* of the bytes from the position at the call to the end, no error, the
\* source at 0.  The copy fails: "", an error, no Seek made.  The copy
\* succeeds and Seek fails: the digest, not empty, and the error of Seek.
\* A Read right after a HashFile that returned no error starts at 0.
C7_HashFileOutcomes ==
    /\ []C7_State
    /\ [][(fret.op = "HashFile" /\ fret.err = Nil /\ fret'.op = "Read") =>
            (fret'.from = 0 /\ fret'.read = Take(file.data, Len(fret'.read)))]_vars

C7_Witness ==
    /\ fret.op = "HashFile" /\ fret.x = CUSTOM /\ fret.from = 1
    /\ file.data = <<0, 104, 0>>
    /\ fret.trouble.seekFail /\ ~DrainFails(fret.trouble)
    /\ fret.err = SeekErr /\ fret.str # << >> /\ file.pos = 3

(***************************************************************************)
(* Properties of HashInfo (SpecInfo).                                      *)
(***************************************************************************)
\* strings.Split(s, "\n")
RECURSIVE Split(_, _)
Split(s, cur) ==
    IF s = << >> THEN <<cur>>
    ELSE IF Head(s) = LF THEN <<cur>> \o Split(Tail(s), << >>)
    ELSE Split(Tail(s), Append(cur, Head(s)))

\* the lines of a text: none for the empty text
Lines(s) == IF s = << >> THEN << >> ELSE Split(s, << >>)

Count(seq, x) == Cardinality({i \in DOMAIN seq : seq[i] = x})

\* C8: String() has the line "<Name>:<digest>" once for each entry whose
\* digest is not empty, and no other line; it is "" when there is no such
\* entry.  GetHash(X) is the string stored for X, or "" when X is no key.
C8_Render ==
    /\ hret.op = "String" =>
          LET NE      == {k \in DOMAIN hi : hi[k] # << >>}
              Line(k) == heap[k].Name \o <<":">> \o hi[k]
              got     == Lines(hret.str)
          IN  /\ Len(got) = Cardinality(NE)
              /\ \A l \in Range(got) \cup {Line(k) : k \in NE} :
                     Count(got, l) = Cardinality({k \in NE : Line(k) = l})
              /\ NE = {} => hret.str = << >>
    /\ hret.op = "GetHash" =>
          hret.str = IF hret.x \in DOMAIN hi THEN hi[hret.x] ELSE << >>

C8_Witness ==
    /\ hret.op = "String"
    /\ DOMAIN hi = {MD5, SHA1, CUSTOM}
    /\ hi[SHA1] = << >> /\ hi[MD5] # << >> /\ hi[CUSTOM] = hi[MD5]
    /\ Len(Lines(hret.str)) = 2

(***************************************************************************)
(* Properties of the MultiHasher (SpecHasher).                             *)
(***************************************************************************)
\* the digests the computers of m hold now
Digests == [k \in DOMAIN m.h |-> EncodeToString(HashSum(m.h[k]))]

\* C1: Size() is 0 before any Write; after any Write calls, failed ones
\* included, it is the sum of the counts they returned; after one successful
\* Write of B it is len(B).
C1_SizeIsSumOfReturned ==
    m.built =>
        /\ m.size = hist.sumN
        /\ hist.writes = 0 => m.size = 0
        /\ (hist.writes = 1 /\ hist.ok) => m.size = Len(hist.fed)
        /\ ret.op = "Size" => ret.size = hist.sumN

C1_Witness ==
    /\ m.built /\ ret.op = "Size"
    /\ hist.writes = 2 /\ ~hist.ok
    /\ 0 < ret.size /\ ret.size < Len(hist.fed)

\* C2: after successful Writes only, there is one computer per descriptor
\* given at construction, each placed once in the forwarding order, and each
\* has consumed the written buffers concatenated in call order.
C2_SameBytesEverywhere ==
    m.built =>
        /\ DOMAIN m.h = Range(m.types)
        /\ Range(m.w) = DOMAIN m.h
        /\ Len(m.w) = Cardinality(DOMAIN m.h)
        /\ hist.ok => \A t \in Range(m.types) : m.h[t].acc = hist.fed

C2_Witness ==
    /\ m.built /\ Cardinality(DOMAIN m.h) = 3 /\ CUSTOM \in DOMAIN m.h
    /\ hist.ok /\ hist.writes = 2 /\ hist.fed = <<104, 0>>
    /\ ret.op = "Write" /\ ret.p = <<0>>

\* C3: the entry of GetHashInfo() for a descriptor X given at construction is
\* HashData(X, B), B being the bytes written, however they were split into
\* (successful) Writes.
C3_InfoIsHashData ==
    (info.taken /\ infoFresh /\ hist.ok) =>
        \A X \in Range(m.types) : X \in DOMAIN info.h /\ info.h[X] = HashData(X, hist.fed)

C3_Witness ==
    /\ info.taken /\ infoFresh /\ hist.ok
    /\ Range(m.types) = {MD5, SHA1, SHA256}
    /\ hist.writes = 2 /\ hist.fed = <<104, 0>>
    /\ info.h[MD5] # EncodeToString(HashSum(NewFunc("md5")))

\* what Sum(X) returned, against the pointers given at construction
C4_SumResult ==
    ret.op = "Sum" =>
        /\ (ret.x \notin Range(m.types)) <=> (ret.err = ErrUnsupported)
        /\ ret.err = ErrUnsupported => ret.sum = << >>
        /\ ret.err # ErrUnsupported => ret.err = Nil /\ ret.sum = HashSum(m.h[ret.x])

\* C4: Sum(X) returns (nil, ErrUnsupported) exactly when X is not one of the
\* pointers given at construction, and otherwise X's current digest and no
\* error; either way the counter and the computers are as they were.
C4_Sum ==
    /\ []C4_SumResult
    /\ [][ret'.op = "Sum" => (m'.size = m.size /\ m'.h = m.h)]_vars

C4_Witness ==
    /\ ret.op = "Sum" /\ ret.x = CUSTOM /\ ret.err = ErrUnsupported
    /\ Range(m.types) = {MD5}
    /\ hist.writes > 0 /\ m.size > 0

\* a Write step in which the k-th computer of the forwarding order fails
C9_Step ==
    (ret'.op = "Write" /\ hist'.writes = hist.writes + 1 /\ ret'.fault.at > 0) =>
        LET k == ret'.fault.at
            p == ret'.p
        IN  /\ ret'.fault.err => ret'.err = WriteErr(m.w[k])
            /\ ret'.err # Nil
            /\ \A j \in 1..(k - 1) : m'.h[m.w[j]].acc = m.h[m.w[j]].acc \o p
            /\ \A j \in (k + 1)..Len(m.w) : m'.h[m.w[j]] = m.h[m.w[j]]

\* C9: when the k-th computer in the forwarding order returns an error, Write
\* returns that error, the computers before it have taken all of p, the ones
\* after it nothing; the forwarding order never changes.
C9_PartialFanOut == [][C9_Step /\ (m.built => m'.w = m.w)]_vars

C9_Witness ==
    /\ ret.op = "Write" /\ ret.fault.at = 2 /\ ret.fault.err /\ Len(m.w) = 3
    /\ ret.err = WriteErr(CUSTOM) /\ ret.p = <<104>> /\ hist.writes = 2
    /\ m.h[m.w[1]].acc = <<0, 104>> /\ m.h[m.w[3]].acc = <<0>>

\* one step, by the call that made it
C10_Step ==
    /\ ret'.op \in {"GetHashInfo", "Sum", "Size"} => m' = m
    /\ ret'.op = "GetHashInfo" =>
          /\ DOMAIN info'.h = Range(m.types)
          /\ (info.taken /\ infoFresh) => info'.h = info.h
    /\ ret'.op = "Write" => info' = info

\* C10: GetHashInfo, Sum and Size change neither the counter nor a computer;
\* GetHashInfo returns an entry for exactly the descriptors given at
\* construction, and the same mapping as the call before it when no Write
\* came between; a Write leaves a mapping taken earlier as it was.
C10_ReadOnly == [][C10_Step]_vars

C10_Witness ==
    /\ info.taken /\ ~infoFresh /\ ret.op = "Write" /\ ret.err = Nil /\ ret.p # << >>
    /\ Cardinality(DOMAIN info.h) = 2
    /\ \A k \in DOMAIN info.h : info.h[k] # Digests[k]

====
